---- MODULE Spec2Model ----
(***************************************************************************)
(* Realtime relay of astroone-realtime: one persistent upstream WebSocket  *)
(* (OpenAI Realtime), a registry of browser WebSockets, and the handlers   *)
(* that translate between them.  The model follows src/server/ws-server.js *)
(* lines 1-288 (variant "A"); the variable `variant` selects the handlers  *)
(* of the other copies of the server kept in the repository.               *)
(***************************************************************************)
EXTENDS Integers, Sequences, FiniteSets, TLC

VARIABLES OPENAI_API_KEY, http, files, variant, sockets, openaiWs, openaiReady,
          openaiVoice, openaiInstructions, timers, clients, conn, inits,
          nInits, configured, last

vars == <<OPENAI_API_KEY, http, files, variant, sockets, openaiWs, openaiReady,
          openaiVoice, openaiInstructions, timers, clients, conn, inits,
          nInits, configured, last>>

(* ---------------------------- bounds ---------------------------------- *)
MaxHandles == 2
MaxClients == 2
MaxInits == 2
MaxRequests == 2

(* ------------------------- program constants -------------------------- *)
DEFAULT_VOICE == "verse"
VALID_VOICES == {"alloy", "ash", "ballad", "coral", "echo", "sage",
                 "shimmer", "verse", "marin", "cedar"}
ReconnectDelayMs == 2000
ReconnectDelayMsOld == 3000
binaryType == "arraybuffer"

(* Granularity of the clock that ages the pending reconnect timers. *)
TickMs == 2000

(* ------------------------- environment inputs ------------------------- *)
Undefined == "undefined"
(* process.env.OPENAI_API_KEY || "": set, or missing. *)
ApiKeyInputs == {"sk-key", ""}
VoiceInputs == {"alloy", "not-a-real-voice", Undefined}
(* The instruction text built for the n-th init received: every init builds its
   own text from its own subject fields and lookups. *)
InstructionOf(n) == IF n = 1 THEN "I1" ELSE IF n = 2 THEN "I2" ELSE "I3"
AudioInputs == {"A1", "A2"}
(* An init's subject fields and the outcome of its two lookups: all fine;
   both lookups failing (unreachable, malformed JSON); dob missing and a
   profile answer without data. *)
EnrichInputs ==
  {[fields |-> "complete", geo |-> "ok", astro |-> "ok"],
   [fields |-> "complete", geo |-> "unreachable", astro |-> "malformed"],
   [fields |-> "no_dob", geo |-> "ok", astro |-> "no_data"]}

(* Frames the upstream can emit: opcode and payload bytes. *)
EnvelopeASpaced == <<123, 32, 34, 116, 121, 112, 101, 34, 58, 34, 97, 34, 125>>
Malformed == <<123, 34, 116, 121>>
Frames == {[opcode |-> "binary", bytes |-> <<1, 2, 255, 77>>],
           [opcode |-> "text", bytes |-> EnvelopeASpaced],
           [opcode |-> "text", bytes |-> Malformed]}

(* ---------------------------- base64 ---------------------------------- *)
(* Buffer.toString("base64"): 6-bit symbols 0..63, 64 is the pad "=". *)
RECURSIVE Base64(_)
Base64(b) ==
  IF Len(b) = 0 THEN <<>>
  ELSE IF Len(b) = 1
    THEN <<b[1] \div 4, (b[1] % 4) * 16, 64, 64>>
  ELSE IF Len(b) = 2
    THEN <<b[1] \div 4, (b[1] % 4) * 16 + b[2] \div 16, (b[2] % 16) * 4, 64>>
  ELSE <<b[1] \div 4, (b[1] % 4) * 16 + b[2] \div 16,
         (b[2] % 16) * 4 + b[3] \div 64, b[3] % 64>>
       \o Base64(SubSeq(b, 4, Len(b)))

(* The inverse a browser applies (atob), used to state round trips. *)
RECURSIVE Base64Decode(_)
Base64Decode(s) ==
  IF Len(s) < 4 THEN <<>>
  ELSE LET b1 == s[1] * 4 + s[2] \div 16
           b2 == (s[2] % 16) * 16 + s[3] \div 4
           b3 == (s[3] % 4) * 64 + s[4]
           rest == Base64Decode(SubSeq(s, 5, Len(s)))
       IN IF s[3] = 64 THEN <<b1>>
          ELSE IF s[4] = 64 THEN <<b1, b2>>
          ELSE <<b1, b2, b3>> \o rest

(* ----------------------------- JSON ----------------------------------- *)
(* JSON.parse / JSON.stringify restricted to envelopes {"type":"<letters>"}. *)
StripSpaces(b) == SelectSeq(b, LAMBDA x : x # 32)
JsonPrefix == <<123, 34, 116, 121, 112, 101, 34, 58, 34>>
JsonSuffix == <<34, 125>>
IsLetters(b) == \A i \in 1..Len(b) : b[i] \in 97..122
JsonParse(raw) ==
  LET b == StripSpaces(raw)
      n == Len(b)
  IN IF /\ n >= Len(JsonPrefix) + Len(JsonSuffix)
        /\ SubSeq(b, 1, Len(JsonPrefix)) = JsonPrefix
        /\ SubSeq(b, n - 1, n) = JsonSuffix
        /\ IsLetters(SubSeq(b, Len(JsonPrefix) + 1, n - 2))
     THEN [ok |-> TRUE, type |-> SubSeq(b, Len(JsonPrefix) + 1, n - 2)]
     ELSE [ok |-> FALSE, type |-> <<>>]
JsonStringify(obj) == JsonPrefix \o obj.type \o JsonSuffix

(* --------------------------- state helpers ---------------------------- *)
Handles == 1..Len(sockets)
ConnIds == 1..MaxClients
Msg(t, a) == [type |-> t, arg |-> a]
Down(k, b) == [kind |-> k, body |-> b]
(* What the last handler run did: its event (op, id and inputs), the handle
   it created (made), the messages it wrote upstream (ups), the message it
   broadcast (bcast), the downstream deliveries (downs), and whether an
   exception left it (threw). *)
NoLast == [op |-> "startup", id |-> 0, frame |-> <<>>, arg |-> "",
           voice |-> "", throwers |-> {}, made |-> 0, ups |-> <<>>,
           bcast |-> <<>>, downs |-> <<>>, threw |-> FALSE, waited |-> 0,
           enrich |-> <<>>, summary |-> ""]
Step(op, id) == [NoLast EXCEPT !.op = op, !.id = id]

(* new WebSocket(url, ...): a handle in readyState CONNECTING. `voice` is the
   url's voice parameter; cInstr / cVoice are the arguments the handlers'
   closures capture; `written` tells whether anything was written to it. *)
NewSocket(urlVoice, instructions, voice) ==
  [state |-> "connecting", voice |-> urlVoice, cInstr |-> instructions,
   cVoice |-> voice, written |-> FALSE]

(* WebSocket.send on an upstream handle: written only in readyState OPEN.
   In CONNECTING it throws; on a CLOSING/CLOSED handle, or on null, nothing
   is written (the ws library drops it, the null dereference throws). *)
SendThrows(socks, h) == h = 0 \/ socks[h].state = "connecting"
SendWrites(socks, h) == h # 0 /\ socks[h].state = "open"
AfterSend(socks, h, m) ==
  IF SendWrites(socks, h) THEN [socks EXCEPT ![h].written = TRUE] ELSE socks
Written(socks, h, m) ==
  IF SendWrites(socks, h) THEN <<[h |-> h, msg |-> m]>> ELSE <<>>

(* ------------------------------ Init ---------------------------------- *)
(* if (!OPENAI_API_KEY) process.exit(1): the relay servers exit during module
   load; server/server.js ("S") only warns. *)
ChecksApiKey(v) == v # "S"
Exits(v, key) == ChecksApiKey(v) /\ key = ""

(* The HTTP side: whether the server listens, the environment of the
   enrichment lookups, and the POST /session requests received. *)
NoHttp(v, key) == [listening |-> ~Exits(v, key), geocode |-> FALSE,
                   shivam |-> FALSE, reqs |-> <<>>]

(* The relay's handlers touch no file; the clock and the files matter to
   cleanOldFiles only. *)
NoFiles == [now |-> 0, entries |-> {}, deleted |-> {}, failed |-> {}]

(* Variant A: the state after module load, i.e. after the call
   connectOpenAI("", DEFAULT_VOICE) at line 206 and server.listen at line
   286, and before any event; or after process.exit at line 41. *)
Init ==
  /\ variant = "A"
  /\ OPENAI_API_KEY \in ApiKeyInputs
  /\ http = NoHttp("A", OPENAI_API_KEY)
  /\ files = NoFiles
  /\ sockets = IF Exits("A", OPENAI_API_KEY) THEN <<>>
               ELSE <<NewSocket(DEFAULT_VOICE, "", "")>>
  /\ openaiWs = IF Exits("A", OPENAI_API_KEY) THEN 0 ELSE 1
  /\ openaiReady = FALSE
  /\ openaiVoice = DEFAULT_VOICE
  /\ openaiInstructions = ""
  /\ timers = <<>>
  /\ clients = <<>>
  /\ conn = [c \in ConnIds |-> "new"]
  /\ inits = <<>>
  /\ nInits = 0
  /\ configured = ""
  /\ last = NoLast

(* --------------------- what each copy of the server does -------------- *)
(* "A": src/server/ws-server.js 1-288; "B": src/server/ws-server.js 290-548;
   "P000": src/unnamed/part_000; "P001": src/unnamed/part_001 1-230;
   "P003": src/unnamed/part_003. *)
ValidatesVoice == variant \in {"A", "B", "P000", "P001"}
(* Mutant of ReusesOpenSocket: every call makes a new handle. *)
NeverReuses == FALSE
ReusesOpenSocket == variant \in {"A", "B", "P001"}
(* "B" and "P001" assign openaiInstructions and openaiVoice before they look
   at the socket (ws-server.js 403-404, part_001 115-116). *)
StoresBeforeReuse == variant \in {"B", "P001"}
(* The reconnect timer passes the module variables, not captured arguments. *)
TimerUsesGlobals == variant \in {"A", "B", "P001"}
(* Mutant of HandlersUseGlobals: the arguments are not stored. *)
StoresNothing == FALSE
HandlersUseGlobals == variant \in {"A", "P001"}
SendsGuarded == variant = "A"
BroadcastCatches == variant \in {"A", "B"}
ErrorClearsReady == variant \in {"A", "P001"}
HasClientErrorHandler == variant \in {"A", "B"}
ReconnectDelay == IF variant = "A" THEN ReconnectDelayMs ELSE ReconnectDelayMsOld

(* The process is gone once an exception escapes an event handler, or when
   it exited at load. *)
Alive == ~last.threw /\ ~Exits(variant, OPENAI_API_KEY)

(* --------------------------- connectOpenAI ---------------------------- *)
Upstream == [sockets |-> sockets, ws |-> openaiWs, ready |-> openaiReady,
             voice |-> openaiVoice, instr |-> openaiInstructions]

ValidVoice(voice) ==
  IF ValidatesVoice /\ voice \notin VALID_VOICES THEN DEFAULT_VOICE ELSE voice

(* A default parameter replaces an argument that is undefined. *)
DefaultParam(voice) == IF voice = Undefined THEN DEFAULT_VOICE ELSE voice

(* connectOpenAI(instructions, voice) applied to upstream state u: the new
   upstream state and the messages written upstream. *)
connectOpenAI(u0, instructions, voiceArg) ==
  LET voice == ValidVoice(DefaultParam(voiceArg))
      u == IF StoresBeforeReuse
           THEN [u0 EXCEPT !.instr = IF instructions # "" THEN instructions
                                     ELSE @,
                           !.voice = voice]
           ELSE u0
      isOpen == u.ws # 0 /\ u.sockets[u.ws].state = "open"
      m == Msg("input_text", instructions)
  IN IF ReusesOpenSocket /\ isOpen
     THEN [u |-> [u EXCEPT !.sockets =
                     IF instructions # "" THEN AfterSend(u.sockets, u.ws, m)
                     ELSE u.sockets],
           ups |-> IF instructions # "" THEN Written(u.sockets, u.ws, m)
                   ELSE <<>>,
           created |-> FALSE]
     ELSE [u |-> [u EXCEPT
                   !.voice = IF HandlersUseGlobals THEN voice ELSE u.voice,
                   !.instr = IF HandlersUseGlobals /\ ~StoresBeforeReuse
                             THEN instructions ELSE u.instr,
                   !.sockets = Append(u.sockets,
                                 IF HandlersUseGlobals
                                 THEN NewSocket(voice, "", "")
                                 ELSE NewSocket(voice, instructions, voice)),
                   !.ws = Len(u.sockets) + 1],
           ups |-> <<>>,
           created |-> TRUE]

(* The handle cap of the model: a call that would create a handle needs a
   free one. *)
CanConnect(u) ==
  \/ Len(u.sockets) < MaxHandles
  \/ (ReusesOpenSocket /\ u.ws # 0 /\ u.sockets[u.ws].state = "open")

SetUpstream(u) ==
  /\ sockets' = u.sockets
  /\ openaiWs' = u.ws
  /\ openaiReady' = u.ready
  /\ openaiVoice' = u.voice
  /\ openaiInstructions' = u.instr

(* ----------------------------- broadcast ------------------------------ *)
(* for (const c of clients) { try { if (c.readyState === OPEN) c.send(msg) }
   catch {} }: clients in insertion order from position i; `throwers` are the
   connections whose send throws. *)
RECURSIVE broadcastFrom(_, _, _)
broadcastFrom(i, msg, throwers) ==
  IF i > Len(clients) THEN [downs |-> <<>>, threw |-> FALSE, bcast |-> <<msg>>]
  ELSE LET c == clients[i]
           rest == broadcastFrom(i + 1, msg, throwers)
       IN IF conn[c] # "open" THEN rest
          ELSE IF c \in throwers
            THEN IF BroadcastCatches THEN rest
                 ELSE [downs |-> <<>>, threw |-> TRUE, bcast |-> <<msg>>]
          ELSE [downs |-> <<[c |-> c, msg |-> msg]>> \o rest.downs,
                threw |-> rest.threw, bcast |-> <<msg>>]

(* Mutant of broadcastToClients: no readyState test, every registered
   connection is written to. *)
broadcastToRegistered(msg, throwers) ==
  [downs |-> [i \in 1..Len(clients) |-> [c |-> clients[i], msg |-> msg]],
   threw |-> FALSE, bcast |-> <<msg>>]

broadcastToClients(msg, throwers) == broadcastFrom(1, msg, throwers)

OpenClients == {clients[i] : i \in {j \in 1..Len(clients) : conn[clients[j]] = "open"}}

(* ----------------------- upstream event handlers ---------------------- *)
(* What the ws library hands to the "message" listener for a frame: binary
   frames follow binaryType; text frames arrive as a string or, in releases
   that do not decode them, as a Buffer. *)
Delivered(f) ==
  IF f.opcode = "binary"
  THEN (IF binaryType = "arraybuffer" THEN {"ArrayBuffer"} ELSE {"Buffer"})
  ELSE {"string", "Buffer"}

(* data.toString(): an ArrayBuffer prints as "[object ArrayBuffer]". *)
ObjectArrayBuffer == <<91, 111, 98, 106, 101, 99, 116, 32, 65, 114, 114, 97,
                       121, 66, 117, 102, 102, 101, 114, 93>>
ToStringBytes(repr, bytes) ==
  IF repr = "ArrayBuffer" THEN ObjectArrayBuffer ELSE bytes

AudioEnvelope(bytes) == Down("output_audio_binary", Base64(bytes))
EventEnvelope(obj) == Down("event", JsonStringify(obj))
Nothing == [downs |-> <<>>, threw |-> FALSE, bcast |-> <<>>]
Caught(r) == [r EXCEPT !.threw = FALSE]

(* openaiWs.on("message", data => ...): the downstream sends it makes and
   whether an exception leaves the listener. *)
onMessage(f, repr, throwers) ==
  LET parsed == JsonParse(ToStringBytes(repr, f.bytes))
      forward == IF parsed.ok
                 THEN broadcastToClients(EventEnvelope(parsed), throwers)
                 ELSE Nothing
      audio == broadcastToClients(AudioEnvelope(f.bytes), throwers)
  IN CASE variant \in {"A", "P001"} ->
            IF repr = "Buffer" THEN Caught(audio) ELSE Caught(forward)
       [] variant = "P000" ->
            IF repr = "string" THEN Caught(forward)
            ELSE IF repr = "Buffer" THEN Caught(audio)
            ELSE Nothing
       [] OTHER ->
            IF repr # "string" THEN audio ELSE Caught(forward)

UpstreamOpen(h) ==
  /\ Alive
  /\ h \in Handles
  /\ sockets[h].state = "connecting"
  /\ LET socks == [sockets EXCEPT ![h].state = "open"]
         text == IF HandlersUseGlobals THEN openaiInstructions
                 ELSE sockets[h].cInstr
         m == Msg("input_text", text)
         sends == text # ""
     IN /\ sockets' = IF sends THEN AfterSend(socks, openaiWs, m) ELSE socks
        /\ openaiReady' = TRUE
        /\ last' = [Step("open", h) EXCEPT
                      !.ups = IF sends THEN Written(socks, openaiWs, m)
                              ELSE <<>>,
                      !.threw = /\ sends
                                /\ ~SendsGuarded
                                /\ SendThrows(socks, openaiWs)]
  /\ UNCHANGED <<OPENAI_API_KEY, http, files, variant, openaiWs, openaiVoice, openaiInstructions, timers,
                 clients, conn, inits, nInits, configured>>

UpstreamMessage(h, f, repr, throwers) ==
  /\ Alive
  /\ h \in Handles
  /\ sockets[h].state = "open"
  /\ repr \in Delivered(f)
  /\ LET r == onMessage(f, repr, throwers)
     IN last' = [Step("message", h) EXCEPT
                   !.frame = <<[opcode |-> f.opcode, bytes |-> f.bytes,
                                repr |-> repr]>>,
                   !.throwers = throwers,
                   !.bcast = r.bcast, !.downs = r.downs, !.threw = r.threw]
  /\ UNCHANGED <<OPENAI_API_KEY, http, files, variant, sockets, openaiWs, openaiReady, openaiVoice,
                 openaiInstructions, timers, clients, conn, inits, nInits, configured>>

UpstreamError(h) ==
  /\ Alive
  /\ h \in Handles
  /\ sockets[h].state \in {"connecting", "open"}
  /\ sockets' = [sockets EXCEPT ![h].state = "closing"]
  /\ openaiReady' = IF ErrorClearsReady THEN FALSE ELSE openaiReady
  /\ last' = Step("error", h)
  /\ UNCHANGED <<OPENAI_API_KEY, http, files, variant, openaiWs, openaiVoice, openaiInstructions, timers,
                 clients, conn, inits, nInits, configured>>

(* Mutant of NewTimer: the delay grows with the number of the handle that
   closed. *)
NewTimerBackoff(h) ==
  [age |-> 0, delay |-> ReconnectDelay * h,
   cInstr |-> IF TimerUsesGlobals THEN "" ELSE sockets[h].cInstr,
   cVoice |-> IF TimerUsesGlobals THEN "" ELSE sockets[h].cVoice]

(* setTimeout(() => connectOpenAI(...), delay): a pending timer with the
   time it has waited and the arguments its closure captured. *)
NewTimer(h) ==
  [age |-> 0, delay |-> ReconnectDelay,
   cInstr |-> IF TimerUsesGlobals THEN "" ELSE sockets[h].cInstr,
   cVoice |-> IF TimerUsesGlobals THEN "" ELSE sockets[h].cVoice]

UpstreamClose(h) ==
  /\ Alive
  /\ h \in Handles
  /\ sockets[h].state \in {"open", "closing"}
  /\ sockets' = [sockets EXCEPT ![h].state = "closed"]
  /\ openaiReady' = FALSE
  /\ timers' = Append(timers, NewTimer(h))
  /\ last' = Step("close", h)
  /\ UNCHANGED <<OPENAI_API_KEY, http, files, variant, openaiWs, openaiVoice, openaiInstructions,
                 clients, conn, inits, nInits, configured>>

Min(a, b) == IF a < b THEN a ELSE b

Tick ==
  /\ Alive
  /\ \E i \in 1..Len(timers) : timers[i].age < timers[i].delay
  /\ timers' = [i \in 1..Len(timers) |->
                  [timers[i] EXCEPT !.age = Min(@ + TickMs, timers[i].delay)]]
  /\ last' = Step("tick", 0)
  /\ UNCHANGED <<OPENAI_API_KEY, http, files, variant, sockets, openaiWs, openaiReady, openaiVoice,
                 openaiInstructions, clients, conn, inits, nInits, configured>>

TimerDue(t) == t.age >= t.delay

TimerFire ==
  /\ Alive
  /\ timers # <<>>
  /\ TimerDue(timers[1])
  /\ CanConnect(Upstream)
  /\ LET t == timers[1]
         r == IF TimerUsesGlobals
              THEN connectOpenAI(Upstream, openaiInstructions, openaiVoice)
              ELSE connectOpenAI(Upstream, t.cInstr, t.cVoice)
     IN /\ SetUpstream(r.u)
        /\ last' = [Step("timer", 0) EXCEPT
                      !.made = IF r.created THEN r.u.ws ELSE 0,
                      !.ups = r.ups, !.waited = t.age]
  /\ timers' = Tail(timers)
  /\ UNCHANGED <<OPENAI_API_KEY, http, files, variant, clients, conn, inits, nInits, configured>>

(* ---------------------- downstream event handlers --------------------- *)
Registered(c) == \E i \in 1..Len(clients) : clients[i] = c
(* Mutant of Receiving: no message is handled while an init handler is
   suspended. *)
ReceivingWhenIdle(c) == conn[c] \in {"open", "closing"} /\ inits = <<>>
(* A connection whose messages and close event are still delivered. *)
Receiving(c) == conn[c] \in {"open", "closing"}

(* wss.on("connection"): clients.add(ws). Connections arrive in id order. *)
ClientConnect(c) ==
  /\ Alive
  /\ c \in ConnIds
  /\ conn[c] = "new"
  /\ \A d \in 1..(c - 1) : conn[d] # "new"
  /\ conn' = [conn EXCEPT ![c] = "open"]
  /\ clients' = Append(clients, c)
  /\ last' = Step("connect", c)
  /\ UNCHANGED <<OPENAI_API_KEY, http, files, variant, sockets, openaiWs, openaiReady, openaiVoice,
                 openaiInstructions, timers, inits, nInits, configured>>

(* Mutant of ClientInit: the handler marks the upstream not ready before it
   awaits the fetch. *)
ClientInitClearsReady(c) ==
  /\ Alive
  /\ c \in ConnIds
  /\ Receiving(c)
  /\ nInits < MaxInits
  /\ inits' = Append(inits, [c |-> c, instr |-> InstructionOf(nInits + 1)])
  /\ nInits' = nInits + 1
  /\ openaiReady' = FALSE
  /\ last' = Step("init", c)
  /\ UNCHANGED <<OPENAI_API_KEY, http, files, variant, sockets, openaiWs, openaiVoice,
                 openaiInstructions, timers, clients, conn, configured>>

(* type "init", up to the await of the enrichment fetch. The handler reads
   the message's voice field only after the await: the model draws it there. *)
ClientInit(c) ==
  /\ Alive
  /\ c \in ConnIds
  /\ Receiving(c)
  /\ nInits < MaxInits
  /\ inits' = Append(inits, [c |-> c, instr |-> InstructionOf(nInits + 1)])
  /\ nInits' = nInits + 1
  /\ last' = Step("init", c)
  /\ UNCHANGED <<OPENAI_API_KEY, http, files, variant, sockets, openaiWs, openaiReady, openaiVoice,
                 openaiInstructions, timers, clients, conn, configured>>

(* The voice argument the init handler passes to connectOpenAI. *)
InitVoice(voice) ==
  IF variant \in {"A", "B"}
  THEN (IF voice \in VALID_VOICES THEN voice ELSE DEFAULT_VOICE)
  ELSE voice

(* Mutant of InitOkTargets: the acknowledgment goes through the broadcast. *)
InitOkToAll(c) == SelectSeq(clients, LAMBDA x : conn[x] = "open")

(* try { ws.send(init_ok) } catch {}: written only to the originating
   connection, and only if it is open. *)
InitOkTargets(c) == IF conn[c] = "open" THEN <<c>> ELSE <<>>

RemoveAt(q, i) == SubSeq(q, 1, i - 1) \o SubSeq(q, i + 1, Len(q))

(* buildKundliSummary (ws-server.js): every lookup is wrapped, the profile
   lookup is made only with name, dob and tob present, and missing fields
   print as "N/A"; it never throws. *)
buildKundliSummary(e) ==
  [threw |-> FALSE,
   summary |-> IF e.geo = "ok" /\ e.fields = "complete" /\ e.astro = "ok"
               THEN "full" ELSE "partial"]

(* fetchKundliSummary (part_000): dob.split and tob.split come first, outside
   any try: a missing dob throws; the lookups are wrapped. *)
fetchKundliSummaryOld(e) ==
  IF e.fields = "no_dob" THEN [threw |-> TRUE, summary |-> ""]
  ELSE [threw |-> FALSE,
        summary |-> IF e.geo = "ok" /\ e.astro = "ok" THEN "full"
                    ELSE "partial"]

(* The enrichment fetcher of each copy; part_003 has none and uses a fixed
   instruction. *)
Enrichment(e) ==
  CASE variant \in {"A", "B", "P001"} -> buildKundliSummary(e)
    [] variant = "P000" -> fetchKundliSummaryOld(e)
    [] OTHER -> [threw |-> FALSE, summary |-> "fixed"]

(* type "init", after the await: connectOpenAI(...) then ws.send(init_ok).
   When the fetcher throws, the handler's catch ends it. *)
InitResume(i, voice, e) ==
  /\ Alive
  /\ i \in 1..Len(inits)
  /\ voice \in VoiceInputs
  /\ e \in EnrichInputs
  /\ IF Enrichment(e).threw
     THEN /\ last' = [Step("init_aborted", inits[i].c) EXCEPT
                        !.arg = inits[i].instr,
                        !.voice = voice,
                        !.enrich = <<e>>]
          /\ UNCHANGED <<sockets, openaiWs, openaiReady, openaiVoice,
                         openaiInstructions, configured>>
     ELSE /\ CanConnect(Upstream)
          /\ LET p == inits[i]
                 r == connectOpenAI(Upstream, p.instr, InitVoice(voice))
             IN /\ SetUpstream(r.u)
                /\ last' = [Step("init_resume", p.c) EXCEPT
                              !.ups = r.ups,
                              !.arg = p.instr,
                              !.voice = voice,
                              !.enrich = <<e>>,
                              !.summary = Enrichment(e).summary,
                              !.made = IF r.created THEN r.u.ws ELSE 0,
                              !.downs = [k \in 1..Len(InitOkTargets(p.c)) |->
                                           [c |-> InitOkTargets(p.c)[k],
                                            msg |-> Down("init_ok", <<>>)]]]
          /\ configured' = inits[i].instr
  /\ inits' = RemoveAt(inits, i)
  /\ UNCHANGED <<OPENAI_API_KEY, http, files, variant, timers, clients, conn, nInits>>

(* Mutant of DropsUntilReady: the readiness check is left out. *)
DropsNever(ready) == FALSE

(* if (!openaiReady) return; *)
DropsUntilReady(ready) == ~ready

(* Mutant of AppendAudio: the chunk is left out of the instruction. *)
AppendNoAudio(audio) == Msg("input_audio_buffer.append", Undefined)

(* JSON.stringify({ type: "input_audio_buffer.append", audio: parsed.data }) *)
AppendAudio(audio) == Msg("input_audio_buffer.append", audio)

(* type "media": if (!openaiReady) return; openaiWs.send(append). *)
ClientMedia(c, audio) ==
  /\ Alive
  /\ c \in ConnIds
  /\ Receiving(c)
  /\ LET m == AppendAudio(audio)
     IN IF ~DropsUntilReady(openaiReady)
        THEN /\ sockets' = AfterSend(sockets, openaiWs, m)
             /\ last' = [Step("media", c) EXCEPT
                           !.arg = audio,
                           !.ups = Written(sockets, openaiWs, m)]
        ELSE /\ sockets' = sockets
             /\ last' = [Step("media", c) EXCEPT !.arg = audio]
  /\ UNCHANGED <<OPENAI_API_KEY, http, files, variant, openaiWs, openaiReady, openaiVoice,
                 openaiInstructions, timers, clients, conn, inits, nInits, configured>>

(* type "media_commit": commit then response.create, in one try block. *)
ClientCommit(c) ==
  /\ Alive
  /\ c \in ConnIds
  /\ Receiving(c)
  /\ LET m1 == Msg("input_audio_buffer.commit", "")
         m2 == Msg("response.create", "")
     IN IF ~DropsUntilReady(openaiReady)
        THEN /\ sockets' = AfterSend(AfterSend(sockets, openaiWs, m1),
                                     openaiWs, m2)
             /\ last' = [Step("media_commit", c) EXCEPT
                           !.ups = Written(sockets, openaiWs, m1)
                                   \o Written(sockets, openaiWs, m2)]
        ELSE /\ sockets' = sockets
             /\ last' = Step("media_commit", c)
  /\ UNCHANGED <<OPENAI_API_KEY, http, files, variant, openaiWs, openaiReady, openaiVoice,
                 openaiInstructions, timers, clients, conn, inits, nInits, configured>>

(* Mutant of ClientStop: every open connection is closed. *)
ClientStopAll(c) ==
  /\ Alive
  /\ c \in ConnIds
  /\ Receiving(c)
  /\ conn' = [d \in ConnIds |->
                IF d = c \/ conn[d] = "open" THEN "closing" ELSE conn[d]]
  /\ last' = Step("stop", c)
  /\ UNCHANGED <<OPENAI_API_KEY, http, files, variant, sockets, openaiWs, openaiReady,
                 openaiVoice, openaiInstructions, timers, clients, inits,
                 nInits, configured>>

(* type "stop": ws.close() starts the closing handshake. *)
ClientStop(c) ==
  /\ Alive
  /\ c \in ConnIds
  /\ Receiving(c)
  /\ conn' = [conn EXCEPT ![c] = "closing"]
  /\ last' = Step("stop", c)
  /\ UNCHANGED <<OPENAI_API_KEY, http, files, variant, sockets, openaiWs, openaiReady, openaiVoice,
                 openaiInstructions, timers, clients, inits, nInits, configured>>

(* A payload that does not parse, or whose type is missing or unknown. *)
OtherInputs == {"malformed", "missing_type", "unknown_type"}

(* Mutant of ClientOther: a payload that does not parse closes the
   connection. *)
ClientOtherCloses(c, kind) ==
  /\ Alive
  /\ c \in ConnIds
  /\ Receiving(c)
  /\ kind \in OtherInputs
  /\ conn' = [conn EXCEPT ![c] = IF kind = "malformed" THEN "closing" ELSE @]
  /\ last' = [Step("ignored", c) EXCEPT !.arg = kind]
  /\ UNCHANGED <<OPENAI_API_KEY, http, files, variant, sockets, openaiWs, openaiReady,
                 openaiVoice, openaiInstructions, timers, clients, inits,
                 nInits, configured>>

(* JSON.parse throws into the catch at line 261; a missing type returns at
   line 225; an unknown type matches no branch. *)
ClientOther(c, kind) ==
  /\ Alive
  /\ c \in ConnIds
  /\ Receiving(c)
  /\ kind \in OtherInputs
  /\ last' = [Step("ignored", c) EXCEPT !.arg = kind]
  /\ UNCHANGED <<OPENAI_API_KEY, http, files, variant, sockets, openaiWs, openaiReady, openaiVoice,
                 openaiInstructions, timers, clients, conn, inits, nInits, configured>>

(* Mutant of ClientClose: the connection stays in the registry. *)
ClientCloseKeeps(c) ==
  /\ Alive
  /\ c \in ConnIds
  /\ Receiving(c)
  /\ conn' = [conn EXCEPT ![c] = "closed"]
  /\ last' = Step("client_close", c)
  /\ UNCHANGED <<OPENAI_API_KEY, http, files, variant, sockets, openaiWs, openaiReady, openaiVoice,
                 openaiInstructions, timers, clients, inits, nInits, configured>>

(* ws.on("close"): clients.delete(ws). *)
ClientClose(c) ==
  /\ Alive
  /\ c \in ConnIds
  /\ Receiving(c)
  /\ conn' = [conn EXCEPT ![c] = "closed"]
  /\ clients' = SelectSeq(clients, LAMBDA x : x # c)
  /\ last' = Step("client_close", c)
  /\ UNCHANGED <<OPENAI_API_KEY, http, files, variant, sockets, openaiWs, openaiReady, openaiVoice,
                 openaiInstructions, timers, inits, nInits, configured>>

(* ws.on("error"): ws.close(); with no listener the error is thrown. *)
ClientError(c) ==
  /\ Alive
  /\ c \in ConnIds
  /\ conn[c] = "open"
  /\ conn' = [conn EXCEPT ![c] = "closing"]
  /\ last' = [Step("client_error", c) EXCEPT !.threw = ~HasClientErrorHandler]
  /\ UNCHANGED <<OPENAI_API_KEY, http, files, variant, sockets, openaiWs, openaiReady, openaiVoice,
                 openaiInstructions, timers, clients, inits, nInits, configured>>

(* --------------------------- specifications --------------------------- *)
(* The other copies make no connection at load: openaiWs is still null. *)
InitOld(v) ==
  /\ variant = v
  /\ OPENAI_API_KEY \in ApiKeyInputs
  /\ http = NoHttp(v, OPENAI_API_KEY)
  /\ files = NoFiles
  /\ sockets = <<>>
  /\ openaiWs = 0
  /\ openaiReady = FALSE
  /\ openaiVoice = DEFAULT_VOICE
  /\ openaiInstructions = ""
  /\ timers = <<>>
  /\ clients = <<>>
  /\ conn = [c \in ConnIds |-> "new"]
  /\ inits = <<>>
  /\ nInits = 0
  /\ configured = ""
  /\ last = NoLast

(* The second copy in ws-server.js after module load: as the first, it has
   called connectOpenAI("", DEFAULT_VOICE) (line 455) or exited (line 324). *)
InitB ==
  /\ variant = "B"
  /\ OPENAI_API_KEY \in ApiKeyInputs
  /\ http = NoHttp("B", OPENAI_API_KEY)
  /\ files = NoFiles
  /\ sockets = IF Exits("B", OPENAI_API_KEY) THEN <<>>
               ELSE <<NewSocket(DEFAULT_VOICE, "", DEFAULT_VOICE)>>
  /\ openaiWs = IF Exits("B", OPENAI_API_KEY) THEN 0 ELSE 1
  /\ openaiReady = FALSE
  /\ openaiVoice = DEFAULT_VOICE
  /\ openaiInstructions = ""
  /\ timers = <<>>
  /\ clients = <<>>
  /\ conn = [c \in ConnIds |-> "new"]
  /\ inits = <<>>
  /\ nInits = 0
  /\ configured = ""
  /\ last = NoLast

(* part_001 after module load: connectOpenAI("", DEFAULT_VOICE) at line 161,
   or the exit at line 36. *)
InitP001 ==
  /\ variant = "P001"
  /\ OPENAI_API_KEY \in ApiKeyInputs
  /\ http = NoHttp("P001", OPENAI_API_KEY)
  /\ files = NoFiles
  /\ sockets = IF Exits("P001", OPENAI_API_KEY) THEN <<>>
               ELSE <<NewSocket(DEFAULT_VOICE, "", "")>>
  /\ openaiWs = IF Exits("P001", OPENAI_API_KEY) THEN 0 ELSE 1
  /\ openaiReady = FALSE
  /\ openaiVoice = DEFAULT_VOICE
  /\ openaiInstructions = ""
  /\ timers = <<>>
  /\ clients = <<>>
  /\ conn = [c \in ConnIds |-> "new"]
  /\ inits = <<>>
  /\ nInits = 0
  /\ configured = ""
  /\ last = NoLast

InitP000 == InitOld("P000")
InitP003 == InitOld("P003")

Next ==
  \/ \E h \in 1..MaxHandles : UpstreamOpen(h)
  \/ \E h \in 1..MaxHandles, f \in Frames, repr \in {"string", "Buffer", "ArrayBuffer"} :
       \E throwers \in SUBSET OpenClients : UpstreamMessage(h, f, repr, throwers)
  \/ \E h \in 1..MaxHandles : UpstreamError(h)
  \/ \E h \in 1..MaxHandles : UpstreamClose(h)
  \/ Tick
  \/ TimerFire
  \/ \E c \in ConnIds : ClientConnect(c)
  \/ \E c \in ConnIds : ClientInit(c)
  \/ \E i \in 1..MaxInits, v \in VoiceInputs, e \in EnrichInputs :
       InitResume(i, v, e)
  \/ \E c \in ConnIds, a \in AudioInputs : ClientMedia(c, a)
  \/ \E c \in ConnIds : ClientCommit(c)
  \/ \E c \in ConnIds : ClientStop(c)
  \/ \E c \in ConnIds, k \in OtherInputs : ClientOther(c, k)
  \/ \E c \in ConnIds : ClientClose(c)
  \/ \E c \in ConnIds : ClientError(c)

Spec == Init /\ [][Next]_vars
SpecP000 == InitP000 /\ [][Next]_vars
SpecP003 == InitP003 /\ [][Next]_vars
SpecB == InitB /\ [][Next]_vars
SpecP001 == InitP001 /\ [][Next]_vars

(* ----------------------- server/server.js: POST /session -------------- *)
(* Request bodies: all five subject fields present; some missing; no body;
   all present but dob is not a string. *)
BodyInputs == {"complete", "missing_fields", "no_body", "dob_not_string"}
FetchOutcomes == {"ok", "fail"}
SessionOutcomes == {"ok", "not_ok", "network_error", "bad_json"}

(* !name || !dob || !tob || !pob || !gender *)
MissingFields(body) == body \in {"missing_fields", "no_body"}

(* fetchKundliSummary: the outbound calls it makes. The geocode call needs
   GEOCODE_KEY; the token call needs SHIVAM_BASE and SHIVAM_API_KEY, and the
   astro call follows a token response that parsed. *)
fetchKundliSummary(geo, token) ==
  (IF http.geocode THEN <<"geocode">> ELSE <<>>)
    \o (IF http.shivam THEN <<"generateToken">> ELSE <<>>)
    \o (IF http.shivam /\ token = "ok" THEN <<"getAstroData">> ELSE <<>>)

Request(body, stage, status, calls) ==
  [body |-> body, stage |-> stage, status |-> status, calls |-> calls]

(* app.post("/session"), up to the first await. dob.split throws on a dob
   that is not a string, before any fetch: the catch answers 500. *)
SessionPost(body) ==
  /\ http.listening
  /\ Len(http.reqs) < MaxRequests
  /\ body \in BodyInputs
  /\ http' = [http EXCEPT !.reqs = Append(@,
                 IF MissingFields(body) THEN Request(body, "done", 400, <<>>)
                 ELSE IF body = "dob_not_string"
                   THEN Request(body, "done", 500, <<>>)
                 ELSE Request(body, "enrich", 0, <<>>))]
  /\ last' = Step("session_post", Len(http.reqs) + 1)
  /\ UNCHANGED <<OPENAI_API_KEY, files, variant, sockets, openaiWs, openaiReady,
                 openaiVoice, openaiInstructions, timers, clients, conn,
                 inits, nInits, configured>>

(* The summary is built; fetch(".../v1/realtime/sessions") is started. *)
SessionEnriched(i, geo, token) ==
  /\ i \in 1..Len(http.reqs)
  /\ http.reqs[i].stage = "enrich"
  /\ geo \in FetchOutcomes
  /\ token \in FetchOutcomes
  /\ http' = [http EXCEPT !.reqs[i].stage = "upstream",
                          !.reqs[i].calls = fetchKundliSummary(geo, token)
                                              \o <<"realtime/sessions">>]
  /\ last' = Step("session_enriched", i)
  /\ UNCHANGED <<OPENAI_API_KEY, files, variant, sockets, openaiWs, openaiReady,
                 openaiVoice, openaiInstructions, timers, clients, conn,
                 inits, nInits, configured>>

(* Mutant of SessionStatus: every outcome is answered as a success. *)
SessionStatusAlwaysOk(outcome) == 200

(* The status answered for the outcome of the sessions request. *)
SessionStatus(outcome) == IF outcome = "ok" THEN 200 ELSE 500

(* The sessions request completes; without a credential the upstream does
   not answer OK. *)
SessionAnswered(i, outcome) ==
  /\ i \in 1..Len(http.reqs)
  /\ http.reqs[i].stage = "upstream"
  /\ outcome \in SessionOutcomes
  /\ OPENAI_API_KEY = "" => outcome # "ok"
  /\ http' = [http EXCEPT !.reqs[i].stage = "done",
                          !.reqs[i].status = SessionStatus(outcome)]
  /\ last' = [Step("session_answered", i) EXCEPT !.arg = outcome]
  /\ UNCHANGED <<OPENAI_API_KEY, files, variant, sockets, openaiWs, openaiReady,
                 openaiVoice, openaiInstructions, timers, clients, conn,
                 inits, nInits, configured>>

(* server/server.js after module load: the key is only warned about (line
   25) and app.listen has run (line 111); it has no WebSocket side. *)
InitSession ==
  /\ variant = "S"
  /\ OPENAI_API_KEY \in ApiKeyInputs
  /\ http \in [listening : {TRUE}, geocode : BOOLEAN, shivam : BOOLEAN,
                reqs : {<<>>}]
  /\ files = NoFiles
  /\ sockets = <<>>
  /\ openaiWs = 0
  /\ openaiReady = FALSE
  /\ openaiVoice = DEFAULT_VOICE
  /\ openaiInstructions = ""
  /\ timers = <<>>
  /\ clients = <<>>
  /\ conn = [c \in ConnIds |-> "new"]
  /\ inits = <<>>
  /\ nInits = 0
  /\ configured = ""
  /\ last = NoLast

NextSession ==
  \/ \E body \in BodyInputs : SessionPost(body)
  \/ \E i \in 1..MaxRequests, geo \in FetchOutcomes, token \in FetchOutcomes :
       SessionEnriched(i, geo, token)
  \/ \E i \in 1..MaxRequests, outcome \in SessionOutcomes :
       SessionAnswered(i, outcome)

SpecSession == InitSession /\ [][NextSession]_vars

(* ------------- cleanOldFiles (part_001 200-219, part_002 145-161) ------ *)
MaxFiles == 2
MaxNowMs == 450000
ClockStepMs == 150000
(* 5*60*1000 *)
MaxAgeMs == 300000

(* dirs = [path.join(__dirname, "../public"), __dirname]; "uploads" stands
   for any directory that is not in the list. *)
CleanDirs == {"public", "server"}
DirInputs == CleanDirs \cup {"uploads"}

(* File names as character codes: a.mp3, a.wav, a.tmp, a.MP3, a.txt, amp3. *)
NameInputs == {<<97, 46, 109, 112, 51>>, <<97, 46, 119, 97, 118>>,
               <<97, 46, 116, 109, 112>>, <<97, 46, 77, 80, 51>>,
               <<97, 46, 116, 120, 116>>, <<97, 109, 112, 51>>}
Extensions == {<<46, 109, 112, 51>>, <<46, 119, 97, 118>>,
               <<46, 116, 109, 112>>}

ToLower(name) ==
  [i \in 1..Len(name) |-> IF name[i] \in 65..90 THEN name[i] + 32 ELSE name[i]]
EndsWith(name, suffix) ==
  /\ Len(name) >= Len(suffix)
  /\ SubSeq(name, Len(name) - Len(suffix) + 1, Len(name)) = suffix

(* Mutant of IsTempMedia: the name is not looked at. *)
AnyName(name) == TRUE

(* part_001: f.endsWith(".mp3") || f.endsWith(".wav") || f.endsWith(".tmp");
   part_002: /\.(mp3|wav|tmp)$/i.test(f). *)
IsTempMedia(name) ==
  IF variant = "P002"
  THEN \E x \in Extensions : EndsWith(ToLower(name), x)
  ELSE \E x \in Extensions : EndsWith(name, x)

(* Something writes a directory entry: a file, or a subdirectory. *)
WriteFile(d, n, isDir) ==
  /\ Cardinality(files.entries) < MaxFiles
  /\ \A e \in files.entries : ~(e.dir = d /\ e.name = n)
  /\ files' = [now |-> files.now,
               entries |-> files.entries \cup
                  {[dir |-> d, name |-> n, mtimeMs |-> files.now,
                    isDir |-> isDir]},
               deleted |-> {}, failed |-> {}]
  /\ last' = Step("write_file", 0)
  /\ UNCHANGED <<OPENAI_API_KEY, http, variant, sockets, openaiWs,
                 openaiReady, openaiVoice, openaiInstructions, timers,
                 clients, conn, inits, nInits, configured>>

Elapse ==
  /\ files.now < MaxNowMs
  /\ files' = [files EXCEPT !.now = @ + ClockStepMs, !.deleted = {},
                            !.failed = {}]
  /\ last' = Step("elapse", 0)
  /\ UNCHANGED <<OPENAI_API_KEY, http, variant, sockets, openaiWs,
                 openaiReady, openaiVoice, openaiInstructions, timers,
                 clients, conn, inits, nInits, configured>>

(* One run of cleanOldFiles. `failing` are the entries on which statSync or
   unlinkSync throws; unlinkSync always throws on a directory. Each entry
   has its own try/catch, so the result does not depend on the order of
   the sweep. A directory of the list with no entry is skipped or swept
   with nothing to do. *)
cleanOldFiles(failing) ==
  /\ failing \subseteq files.entries
  /\ LET now == files.now
         matched == {e \in files.entries :
                       e.dir \in CleanDirs /\ IsTempMedia(e.name)}
         old == {e \in matched : now - e.mtimeMs > MaxAgeMs}
         throws == {e \in matched : e \in failing \/ (e \in old /\ e.isDir)}
         deleted == old \ throws
     IN files' = [now |-> now, entries |-> files.entries \ deleted,
                  deleted |-> deleted, failed |-> throws]
  /\ last' = Step("cleanOldFiles", 0)
  /\ UNCHANGED <<OPENAI_API_KEY, http, variant, sockets, openaiWs,
                 openaiReady, openaiVoice, openaiInstructions, timers,
                 clients, conn, inits, nInits, configured>>

(* A running process of part_001 or part_002, of which only the cleanup
   interval is followed. *)
InitCleanup ==
  /\ variant \in {"P001", "P002"}
  /\ OPENAI_API_KEY = "sk-key"
  /\ http = NoHttp(variant, OPENAI_API_KEY)
  /\ files = NoFiles
  /\ sockets = <<>>
  /\ openaiWs = 0
  /\ openaiReady = FALSE
  /\ openaiVoice = DEFAULT_VOICE
  /\ openaiInstructions = ""
  /\ timers = <<>>
  /\ clients = <<>>
  /\ conn = [c \in ConnIds |-> "new"]
  /\ inits = <<>>
  /\ nInits = 0
  /\ configured = ""
  /\ last = NoLast

NextCleanup ==
  \/ \E d \in DirInputs, n \in NameInputs, isDir \in BOOLEAN :
       WriteFile(d, n, isDir)
  \/ Elapse
  \/ \E failing \in SUBSET files.entries : cleanOldFiles(failing)

SpecCleanup == InitCleanup /\ [][NextCleanup]_vars

(* Scheduling the runtime and the claim's premise give: a due timer runs
   (the event loop), time passes, a connecting handle is accepted (the
   endpoint accepts connections), and a handle that errored emits its close
   (the ws library emits "close" after "error"). *)
CompleteClose == \E h \in Handles :
                   sockets[h].state = "closing" /\ UpstreamClose(h)
Accept == \E h \in 1..MaxHandles : UpstreamOpen(h)
(* A downstream socket on which close() was called emits its "close". *)
DownstreamCloses == \E c \in ConnIds : conn[c] = "closing" /\ ClientClose(c)
SpecLive ==
  /\ Init
  /\ [][Next]_vars
  /\ WF_vars(Tick)
  /\ WF_vars(TimerFire)
  /\ WF_vars(Accept)
  /\ WF_vars(CompleteClose)
  /\ WF_vars(DownstreamCloses)

(* ------------------------------ claims -------------------------------- *)
Live(h) == sockets[h].state \in {"connecting", "open"}
InputText(h, text) == [h |-> h, msg |-> Msg("input_text", text)]
AllButLast == <<OPENAI_API_KEY, http, files, variant, sockets, openaiWs, openaiReady, openaiVoice,
                openaiInstructions, timers, clients, conn, inits, nInits,
                configured>>

(* C1: at no point are two upstream handles connecting or open at the same
   time. *)
C1_AtMostOneLiveUpstream ==
  Cardinality({h \in Handles : Live(h)}) <= 1

(* C2: when the upstream had a context text applied (also one applied by an
   init while the connection was open) and closed, the reconnect made by the
   timer uses the closed connection's voice, and the first message written
   on the reconnected handle when it opens is the instruction with that
   text. *)
C2_ReconnectReplaysContext ==
  /\ (last.op = "timer" /\ last.made # 0)
       => \E g \in Handles : /\ sockets[g].state = "closed"
                             /\ sockets[last.made].voice = sockets[g].voice
  /\ (/\ last.op = "open"
      /\ last.id = openaiWs
      /\ configured # ""
      /\ \E g \in Handles : g # last.id /\ sockets[g].state = "closed")
       => last.ups = <<InputText(last.id, configured)>>

(* C3: a media or media_commit message handled while openaiReady is false
   writes nothing upstream, sends nothing downstream, and changes no state
   (nothing is queued). *)
C3_DropUntilReady ==
  [][(last'.op \in {"media", "media_commit"} /\ ~openaiReady)
       => /\ last'.ups = <<>>
          /\ last'.downs = <<>>
          /\ UNCHANGED AllButLast]_vars

(* C3 witness: a media message was handled while not ready although the
   current handle is open, and nothing was written. *)
C3_Witness ==
  /\ last.op = "media"
  /\ ~openaiReady
  /\ openaiWs # 0
  /\ sockets[openaiWs].state = "open"
  /\ last.ups = <<>>

InitOk(c) == [c |-> c, msg |-> Down("init_ok", <<>>)]
Deliveries(c, msg) ==
  Cardinality({i \in 1..Len(last.downs) : last.downs[i] = [c |-> c, msg |-> msg]})
AllowedVoices == VALID_VOICES \cup {DEFAULT_VOICE}
Fallback(voice) == IF voice \in VALID_VOICES THEN voice ELSE DEFAULT_VOICE

(* C4: in a broadcast, every registered open connection whose send does not
   throw receives the message, whichever sends throw, and no exception
   leaves the upstream message handler. *)
C4_BroadcastIsolation ==
  (last.op = "message" /\ last.bcast # <<>>)
    => /\ ~last.threw
       /\ \A c \in OpenClients \ last.throwers :
            Deliveries(c, last.bcast[1]) = 1

(* C5: every upstream handle is opened with the requested voice when that is
   in the allow-list and with the default otherwise; an invalid voice is
   never a connection parameter nor the stored voice. *)
C5_VoiceFallback ==
  /\ \A h \in Handles : sockets[h].voice \in AllowedVoices
  /\ openaiVoice \in AllowedVoices
  /\ (last.op = "init_resume" /\ last.made # 0)
       => sockets[last.made].voice = Fallback(last.voice)

(* C6: two consecutive inits on one connection each get an init_ok, and once
   both are handled the second's text is the upstream's context: the text
   last configured and the text stored for the reconnect replay. *)
C6_IdempotentInit ==
  (last.op = "init_resume" /\ conn[1] = "open" /\ conn[2] = "new")
    => /\ last.downs = <<InitOk(1)>>
       /\ (nInits = 2 /\ inits = <<>>)
            => /\ configured = InstructionOf(2)
               /\ openaiInstructions = InstructionOf(2)

(* C7 as stated: every init whose fetch completes produces exactly one
   init_ok, delivered to the originating connection only, after configure. *)
C7_Original ==
  /\ last.op = "init_resume"
       => last.downs = <<InitOk(last.id)>> /\ configured = last.arg
  /\ \A i \in 1..Len(last.downs) :
       last.downs[i].msg.kind = "init_ok" => last.op = "init_resume"

(* C7 amended: every init whose fetch completes invokes configure and then
   makes one init_ok send on the originating connection only: one init_ok is
   delivered if that connection is still open, none to anyone if it is
   closing or closed; init_ok is produced by nothing else. *)
C7_InitOkToOriginator ==
  /\ last.op = "init_resume"
       => /\ last.downs = IF conn[last.id] = "open" THEN <<InitOk(last.id)>>
                          ELSE <<>>
          /\ configured = last.arg
  /\ \A i \in 1..Len(last.downs) :
       last.downs[i].msg.kind = "init_ok" => last.op = "init_resume"

(* C7 witness: an init_ok went to its originator while another connection
   was registered and open. *)
C7_Witness ==
  /\ last.op = "init_resume"
  /\ last.downs = <<InitOk(last.id)>>
  /\ \E c \in OpenClients : c # last.id

(* C8: a binary upstream frame causes one broadcast of an output_audio_binary
   envelope whose data decodes to the frame's bytes, delivered exactly once
   to every registered open connection (stated where one is registered). *)
C8_BinaryFrameBroadcast ==
  (last.op = "message" /\ last.frame[1].opcode = "binary" /\ OpenClients # {})
    => /\ Len(last.bcast) = 1
       /\ last.bcast[1].kind = "output_audio_binary"
       /\ Base64Decode(last.bcast[1].body) = last.frame[1].bytes
       /\ \A c \in OpenClients \ last.throwers :
            Deliveries(c, last.bcast[1]) = 1

(* C9: a text upstream frame that parses as an envelope is broadcast once with
   the same type and fields; one that does not parse causes no broadcast, no
   delivery, no exception and no change of state. *)
C9_TextFrameForwarding ==
  [][(last'.op = "message" /\ last'.frame[1].opcode = "text" /\ OpenClients # {})
       => IF JsonParse(last'.frame[1].bytes).ok
          THEN /\ Len(last'.bcast) = 1
               /\ last'.bcast[1].kind = "event"
               /\ JsonParse(last'.bcast[1].body)
                    = JsonParse(last'.frame[1].bytes)
          ELSE /\ last'.bcast = <<>>
               /\ last'.downs = <<>>
               /\ ~last'.threw
               /\ UNCHANGED AllButLast]_vars

(* C10: an upstream close while ready clears ready in the same step and
   schedules the reconnect; the reconnect runs only after the fixed delay
   has elapsed, with the configured text and the stored voice. *)
C10_CloseThenReconnect ==
  [][/\ (last'.op = "close" /\ openaiReady)
          => ~openaiReady' /\ Len(timers') = Len(timers) + 1
     /\ last'.op = "timer"
          => /\ last'.waited >= ReconnectDelayMs
             /\ openaiInstructions = configured
             /\ last'.made # 0 => /\ sockets'[last'.made].voice = openaiVoice
                                  /\ openaiInstructions' = configured]_vars

(* A new upstream failure: an error on a handle, or the close of an open one
   (the close of a handle that already errored completes an earlier failure). *)
UpstreamFails ==
  \E h \in Handles :
    UpstreamError(h) \/ (sockets[h].state = "open" /\ UpstreamClose(h))
Forwarding == /\ openaiReady
              /\ openaiWs # 0
              /\ sockets[openaiWs].state = "open"
(* The reconnect is held back only by the handle bound of the model. *)
CapBlocked == timers # <<>> /\ ~CanConnect(Upstream)

(* C11: if from some point on the upstream no longer fails (the endpoint
   accepts connections and stays up), then from some point on ready is true
   and the current handle is open, so media and media_commit are forwarded;
   behaviours in which only the handle bound holds the reconnect back are
   left aside. *)
C11_RecoversAutomatically ==
  <>[][~UpstreamFails]_vars => <>[](Forwarding \/ CapBlocked)

CurrentOpen == openaiWs # 0 /\ sockets[openaiWs].state = "open"
Sent(t, a) == [h |-> openaiWs, msg |-> Msg(t, a)]

(* C12: a media_commit handled while ready is true writes exactly two
   messages upstream, input_audio_buffer.commit then response.create, one
   right after the other in the same handler run. *)
C12_CommitThenRespond ==
  (last.op = "media_commit" /\ openaiReady)
    => last.ups = <<Sent("input_audio_buffer.commit", ""),
                    Sent("response.create", "")>>

(* C13: a media message handled while ready is true and the current handle is
   open writes exactly one input_audio_buffer.append carrying the message's
   payload, on the current handle, within the handler run itself (so the
   appends leave in the order the messages were handled), and changes
   nothing else. *)
C13_MediaAppendedOnce ==
  [][(last'.op = "media" /\ openaiReady /\ CurrentOpen)
       => /\ last'.ups = <<[h |-> openaiWs,
                            msg |-> Msg("input_audio_buffer.append", last'.arg)]>>
          /\ last'.downs = <<>>
          /\ UNCHANGED <<OPENAI_API_KEY, http, files, variant, openaiWs, openaiReady, openaiVoice,
                         openaiInstructions, timers, clients, conn, inits,
                         nInits, configured>>]_vars

(* C13 witness: the second payload was appended on the open current handle. *)
C13_Witness ==
  /\ last.op = "media"
  /\ last.arg = "A2"
  /\ openaiReady
  /\ CurrentOpen
  /\ last.ups = <<Sent("input_audio_buffer.append", "A2")>>

(* C16: when the upstream credential is missing at startup the process does
   not start: the server does not listen, no upstream handle exists and no
   downstream connection is registered, in any state. *)
C16_RefusesToStart ==
  OPENAI_API_KEY = ""
    => /\ ~http.listening
       /\ sockets = <<>>
       /\ openaiWs = 0
       /\ clients = <<>>
       /\ http.reqs = <<>>

Awaiting(c) == \E i \in 1..Len(inits) : inits[i].c = c

(* C14: a stop message, in any state of its connection (also while an init
   of that connection awaits its enrichment), starts the close of the
   originating connection and of no other: every other connection keeps its
   state, the registry is unchanged, and the upstream handles, ready, the
   stored voice and text, the timers and the pending inits are unchanged. *)
C14_StopClosesOnlyOriginator ==
  [][last'.op = "stop"
       => /\ conn'[last'.id] = "closing"
          /\ \A d \in ConnIds \ {last'.id} : conn'[d] = conn[d]
          /\ UNCHANGED <<clients, sockets, openaiWs, openaiReady,
                         openaiVoice, openaiInstructions, timers, inits>>]_vars

(* C14 witness: a connection stopped while its init awaits the enrichment and
   another connection is open and registered. *)
C14_Witness ==
  /\ last.op = "stop"
  /\ Awaiting(last.id)
  /\ conn[last.id] = "closing"
  /\ \E d \in OpenClients : d # last.id

(* C15: a downstream payload that does not parse, or whose type is missing or
   unrecognized, is ignored: nothing is written upstream, nothing is sent
   downstream, no exception leaves the handler, no variable of the relay
   changes (the connection stays as it was and registered), so the handlers
   of later messages on the connection still run. *)
C15_UnknownIgnored ==
  [][last'.op = "ignored"
       => /\ last'.ups = <<>>
          /\ last'.downs = <<>>
          /\ last'.bcast = <<>>
          /\ ~last'.threw
          /\ UNCHANGED AllButLast
          /\ conn'[last'.id] \in {"open", "closing"}]_vars

(* C15 witness: an unparsable payload was ignored on an open registered
   connection while the upstream is ready. *)
C15_Witness ==
  /\ last.op = "ignored"
  /\ last.arg = "malformed"
  /\ conn[last.id] = "open"
  /\ Registered(last.id)
  /\ openaiReady
  /\ CurrentOpen

(* C17: whatever the subject fields of an init and the outcome of its
   lookups, when the lookups have finished the fetcher has returned a summary
   without throwing, connectOpenAI has been called with the text built from
   it, and init_ok has been sent to the originating connection (delivered
   when that connection is open). *)
C17_EnrichmentNeverAborts ==
  /\ last.op # "init_aborted"
  /\ last.op = "init_resume"
       => /\ last.summary # ""
          /\ configured = last.arg
          /\ conn[last.id] = "open" => last.downs = <<InitOk(last.id)>>

Texts == {"", InstructionOf(1), InstructionOf(2)}
SameHandles(socks) ==
  \A h \in Handles : /\ socks[h].state = sockets[h].state
                      /\ socks[h].voice = sockets[h].voice

(* C18: connectOpenAI(text, voice) called while the current handle is open
   and ready is true, for every text and voice: with a non-empty text it
   writes that text as one input_text on the current handle, with an empty
   text it writes nothing; no handle is created, none changes state, and the
   current handle and ready stay as they are. The same is stated of the init
   handler's call. *)
C18_ConfigureWhileOpen ==
  (openaiReady /\ CurrentOpen)
    => /\ \A t \in Texts, v \in VoiceInputs :
            LET r == connectOpenAI(Upstream, t, v)
            IN /\ ~r.created
               /\ Len(r.u.sockets) = Len(sockets)
               /\ SameHandles(r.u.sockets)
               /\ r.u.ws = openaiWs
               /\ r.u.ready = openaiReady
               /\ r.ups = IF t = "" THEN <<>> ELSE <<InputText(openaiWs, t)>>
       /\ last.op = "init_resume"
            => /\ last.made = 0
               /\ last.ups = <<InputText(openaiWs, last.arg)>>

(* C18 witness: an init was handled on the open, ready connection and its
   text was written there. *)
C18_Witness ==
  /\ last.op = "init_resume"
  /\ openaiReady
  /\ CurrentOpen
  /\ last.made = 0
  /\ last.ups = <<InputText(openaiWs, last.arg)>>

(* C19: connectOpenAI(text, voice) called while the current handle is not
   open (there is none, or it is closing or closed, or still connecting), for
   every text and voice: it stores the text and the validated voice and
   makes exactly one new handle, connecting, with that voice as its
   parameter, which becomes the current handle; nothing is written. The same
   is stated of the calls made by the init handler and the reconnect timer. *)
C19_ConfigureWhileNotOpen ==
  /\ ~CurrentOpen
       => \A t \in Texts, v \in VoiceInputs :
            LET r == connectOpenAI(Upstream, t, v)
            IN /\ r.created
               /\ r.u.instr = t
               /\ r.u.voice = Fallback(DefaultParam(v))
               /\ Len(r.u.sockets) = Len(sockets) + 1
               /\ SameHandles(r.u.sockets)
               /\ r.u.ws = Len(sockets) + 1
               /\ r.u.sockets[r.u.ws].state = "connecting"
               /\ r.u.sockets[r.u.ws].voice = r.u.voice
               /\ r.ups = <<>>
  /\ (last.op \in {"init_resume", "timer"} /\ last.made # 0)
       => /\ last.made = Len(sockets)
          /\ openaiWs = last.made
          /\ sockets[last.made].state = "connecting"
          /\ sockets[last.made].voice = openaiVoice
          /\ last.ups = <<>>
          /\ last.op = "init_resume"
               => /\ openaiInstructions = last.arg
                  /\ openaiVoice = Fallback(last.voice)

(* C19 witness: the current handle had closed and an init with a valid voice
   made the new one. *)
C19_Witness ==
  /\ last.op = "init_resume"
  /\ last.made = 2
  /\ last.voice = "alloy"
  /\ sockets[1].state = "closed"
  /\ sockets[2].voice = "alloy"

(* C20: at the open event of a handle ready becomes true and, when a text is
   stored, that text is written on the handle that opened, as the first
   message ever written on it. *)
C20_OpenSendsPendingFirst ==
  [][last'.op = "open"
       => /\ openaiReady'
          /\ openaiInstructions # ""
               => /\ last'.ups = <<InputText(last'.id, openaiInstructions)>>
                  /\ ~sockets[last'.id].written]_vars

(* C21: the upstream error handler sets ready to false and neither schedules
   a reconnect timer nor creates a handle nor replaces the current one; a
   reconnect timer is added by a close event only. *)
C21_ErrorOnlyClearsReady ==
  [][/\ last'.op = "error"
          => /\ ~openaiReady'
             /\ timers' = timers
             /\ Len(sockets') = Len(sockets)
             /\ openaiWs' = openaiWs
     /\ Len(timers') > Len(timers) => last'.op = "close"]_vars

(* C22: in every reachable state, ready being true implies that the current
   upstream handle exists and is open; this covers the state in which an
   init made a new handle while an earlier handle was still connecting. *)
C22_ReadyImpliesOpen == openaiReady => CurrentOpen

(* C23: of two init messages, the one received later gives the upstream's
   context once both handlers have run to their end, whichever enrichment
   fetch completes first: the text last passed to the upstream configuration
   is the second init's. *)
C23_LastInitWins ==
  (nInits = 2 /\ inits = <<>> /\ last.op = "init_resume")
    => configured = InstructionOf(2)

(* C24: the registry holds exactly the connections that have connected and
   whose close event has not yet been handled: a connection is in it from
   its connect on and out of it once its close is handled; and a connection
   on which close() was called, as the downstream error handler does, is
   eventually out of the registry. *)
C24_RegistryIsOpenConnections ==
  /\ [](\A c \in ConnIds : Registered(c) <=> Receiving(c))
  /\ []<>(\A c \in ConnIds : conn[c] = "closing" => ~Registered(c))

(* The error handler has just called close() on a connection, still in the
   registry until its close event, while the other connection's close has
   been handled and took it out. *)
C24_Witness ==
  /\ last.op = "client_error"
  /\ conn[last.id] = "closing"
  /\ Registered(last.id)
  /\ \E d \in ConnIds : conn[d] = "closed" /\ ~Registered(d)

(* C25: a broadcast writes only to connections that are in the registry and
   whose transport is open at that moment; a registered connection that is
   closing gets nothing. *)
C25_BroadcastOnlyToOpen ==
  last.op = "message"
    => \A i \in DOMAIN last.downs :
         /\ Registered(last.downs[i].c)
         /\ conn[last.downs[i].c] = "open"

(* A broadcast reached the open connection while the other registered
   connection was closing. *)
C25_Witness ==
  /\ last.op = "message"
  /\ last.downs # <<>>
  /\ \E c \in ConnIds : Registered(c) /\ conn[c] = "closing"

(* C26: every message written to a downstream connection is an event
   envelope carrying an upstream text frame's event, an output_audio_binary
   envelope wrapping an upstream binary frame, or an init_ok answering an
   init; an upstream close or error writes nothing downstream. *)
C26_DownstreamMessageKinds ==
  /\ \A i \in DOMAIN last.downs :
       LET msg == last.downs[i].msg
       IN \/ /\ msg.kind = "event"
             /\ last.op = "message"
             /\ last.frame[1].opcode = "text"
             /\ msg = EventEnvelope(JsonParse(last.frame[1].bytes))
          \/ /\ msg.kind = "output_audio_binary"
             /\ last.op = "message"
             /\ last.frame[1].opcode = "binary"
             /\ msg = AudioEnvelope(last.frame[1].bytes)
          \/ /\ msg = InitOk(last.downs[i].c).msg
             /\ last.op = "init_resume"
  /\ last.op \in {"close", "error"} => last.downs = <<>>

(* C27: no exception leaves an event handler: after every step of the
   upstream open, message, close and error handlers, of the reconnect timer,
   and of the downstream message, close and error handlers, no exception
   has passed the handler's boundary. (A downstream error event for which
   the copy registers no handler is not a handler's throw.) *)
C27_NoThrowPastHandler ==
  (last.op = "client_error" => HasClientErrorHandler) => ~last.threw

(* C28: a media message handled while an init of the same connection still
   awaits its fetch is processed at once, without waiting for the fetch: if
   ready is true its append is written upstream in that step. *)
C28_MediaDuringPendingInit ==
  (last.op = "media" /\ Awaiting(last.id) /\ openaiReady)
    => last.ups = <<Sent("input_audio_buffer.append", last.arg)>>

(* C29: while an init handler is suspended on its fetch, the process goes on
   handling events: every open connection can have a media, media_commit or
   stop message handled, a connecting upstream handle can open, an open one
   can deliver a message, and such a message is broadcast to every open
   connection. *)
C29_PendingInitDoesNotBlock ==
  (inits # <<>> /\ ~last.threw /\ ~Exits(variant, OPENAI_API_KEY))
    => /\ \A c \in ConnIds :
            conn[c] = "open"
              => /\ ENABLED ClientMedia(c, "A1")
                 /\ ENABLED ClientCommit(c)
                 /\ ENABLED ClientStop(c)
       /\ \A h \in Handles :
            /\ sockets[h].state = "connecting" => ENABLED UpstreamOpen(h)
            /\ sockets[h].state = "open"
                 => ENABLED UpstreamMessage(h, [opcode |-> "text",
                                                bytes |-> EnvelopeASpaced],
                                            "string", {})
       /\ (/\ last.op = "message"
           /\ last.throwers = {}
           /\ last.frame[1].repr = "string"
           /\ last.frame[1].bytes = EnvelopeASpaced)
            => {last.downs[i].c : i \in DOMAIN last.downs} = OpenClients

(* An upstream message was broadcast to an open connection, other than the
   one whose init is suspended, while that init awaited its fetch. *)
C29_Witness ==
  /\ last.op = "message"
  /\ inits # <<>>
  /\ \E i \in DOMAIN last.downs : ~Awaiting(last.downs[i].c)

(* C30: the part of an init handler that runs before its fetch completes
   changes nothing in the upstream state (handles, current handle, ready,
   stored voice and text, timers) nor in the registry; all the handler's
   changes are made in the one step that follows the fetch, after which the
   handler has ended. *)
C30_NoMutationAcrossAwait ==
  [][/\ last'.op = "init"
          => UNCHANGED <<sockets, openaiWs, openaiReady, openaiVoice,
                         openaiInstructions, timers, clients, conn,
                         configured>>
     /\ last'.op = "init_resume"
          => /\ Len(inits') = Len(inits) - 1
             /\ configured' = last'.arg
             /\ UNCHANGED <<timers, clients, conn>>]_vars

(* The step after the fetch made a new current handle and stored the text,
   while another init handler is still suspended. *)
C30_Witness ==
  /\ last.op = "init_resume"
  /\ last.made # 0
  /\ openaiWs = last.made
  /\ openaiInstructions = last.arg
  /\ inits # <<>>

(* C31: every close event of an upstream handle schedules exactly one
   reconnect timer, with the same fixed delay however many handles have
   failed before; no attempt counter stops the chain: a due timer can always
   fire (the model's handle bound aside), and when it fires with no open
   current handle it makes a new handle. *)
C31_FixedIntervalReconnect ==
  [][/\ last'.op = "close"
          => /\ Len(timers') = Len(timers) + 1
             /\ SubSeq(timers', 1, Len(timers)) = timers
             /\ timers'[Len(timers')].delay = ReconnectDelayMs
             /\ timers'[Len(timers')].age = 0
     /\ (Alive /\ timers # <<>> /\ TimerDue(timers[1]) /\ CanConnect(Upstream))
          => ENABLED TimerFire
     /\ (last'.op = "timer" /\ ~CurrentOpen)
          => /\ last'.made = Len(sockets) + 1
             /\ sockets'[last'.made].state = "connecting"]_vars

(* The second handle has closed after the first one failed too, and its
   timer carries the same delay. *)
C31_Witness ==
  /\ last.op = "close"
  /\ last.id = 2
  /\ sockets[1].state = "closed"
  /\ timers # <<>>
  /\ timers[Len(timers)].delay = ReconnectDelayMs
  /\ timers[Len(timers)].age = 0

(* C32: a run of cleanOldFiles removes an entry only if it is a file in one
   of the listed directories whose name ends in .mp3, .wav or .tmp (in any
   letter case) and whose age exceeds five minutes; every other entry stays;
   and an entry on which the run fails does not keep the other eligible
   files from being removed. *)
C32_CleanupDeletesOnlyStaleMedia ==
  [][last'.op = "cleanOldFiles"
       => /\ \A e \in files.entries \ files'.entries :
               /\ e.dir \in CleanDirs
               /\ \E x \in Extensions : EndsWith(ToLower(e.name), x)
               /\ files.now - e.mtimeMs > MaxAgeMs
               /\ ~e.isDir
          /\ files'.entries \subseteq files.entries
          /\ \A e \in files.entries :
               (/\ e.dir \in CleanDirs
                /\ \E x \in Extensions : EndsWith(e.name, x)
                /\ files.now - e.mtimeMs > MaxAgeMs
                /\ e \notin files'.failed)
                 => e \notin files'.entries]_vars

(* A run failed on one stale media file, which stays, and removed the
   other one. *)
C32_Witness ==
  /\ last.op = "cleanOldFiles"
  /\ files.deleted # {}
  /\ \E e \in files.failed : e \in files.entries /\ ~e.isDir
                               /\ files.now - e.mtimeMs > MaxAgeMs

(* C33: in every reachable state the pending reconnect timers and the
   connecting upstream handles number at most one together, so that init
   messages during an outage start no second reconnect chain. *)
C33_OneReconnectChain ==
  Len(timers) + Cardinality({h \in Handles : sockets[h].state = "connecting"})
    <= 1

(* C34: an open, message, close or error event of an upstream handle that is
   no longer the current one is not acted upon: it broadcasts nothing, leaves
   ready as it was and schedules no reconnect timer. *)
C34_OnlyCurrentHandleEvents ==
  [][(last'.op \in {"open", "message", "close", "error"}
        /\ last'.id # openaiWs)
       => /\ last'.downs = <<>>
          /\ openaiReady' = openaiReady
          /\ timers' = timers]_vars

(* C35: whenever the current upstream handle is open (its open handler has
   run and it has had no error or close event since), ready is true. *)
C35_OpenImpliesReady == CurrentOpen => openaiReady

(* C36: an init handled while the current upstream handle is open, with a
   valid voice other than that handle's, changes neither the handle's voice
   parameter nor the voice the next reconnect will use. *)
C36_VoiceKeptWhileOpen ==
  [][(/\ last'.op = "init_resume"
      /\ CurrentOpen
      /\ last'.voice \in VALID_VOICES
      /\ last'.voice # sockets[openaiWs].voice)
       => /\ openaiWs' = openaiWs
          /\ sockets'[openaiWs].voice = sockets[openaiWs].voice
          /\ openaiVoice' = openaiVoice]_vars

(* C37: when the fetch of an init completes after the originating connection
   has closed or has asked to stop, the init has no effect: the upstream is
   not configured, nothing is written upstream and no init_ok is sent. *)
C37_InitOfClosedConnection ==
  [][(last'.op = "init_resume" /\ conn[last'.id] # "open")
       => /\ UNCHANGED <<sockets, openaiWs, openaiReady, openaiVoice,
                         openaiInstructions, configured>>
          /\ last'.ups = <<>>
          /\ last'.downs = <<>>]_vars

(* C38: a POST /session whose body lacks one of name, dob, tob, pob, gender
   is answered 400 and makes no outbound call; with all fields present, a
   sessions request that is not answered OK is answered 500 to the client,
   never as a success. *)
C38_SessionValidation ==
  /\ \A i \in 1..Len(http.reqs) :
       MissingFields(http.reqs[i].body)
         => /\ http.reqs[i].stage = "done"
            /\ http.reqs[i].status = 400
            /\ http.reqs[i].calls = <<>>
  /\ (last.op = "session_answered" /\ last.arg # "ok")
       => /\ http.reqs[last.id].body = "complete"
          /\ http.reqs[last.id].stage = "done"
          /\ http.reqs[last.id].status = 500

(* One request was refused with 400 and another, complete, got 500 after the
   upstream answered not OK. *)
C38_Witness ==
  /\ last.op = "session_answered"
  /\ last.arg = "not_ok"
  /\ http.reqs[last.id].status = 500
  /\ \E i \in 1..Len(http.reqs) :
       MissingFields(http.reqs[i].body) /\ http.reqs[i].status = 400

====
